---- MODULE Spec2Model ----
(***************************************************************************)
(* ClientFactory of SMARTerFHIR (src/src/Client/ClientFactory.ts).         *)
(*                                                                         *)
(* One call of createEMRClient is a short chain of steps: obtain a default *)
(* FHIR client (from FHIR.oauth2.ready() or from the standalone            *)
(* authorization-code exchange), detect the EMR vendor, wrap the client.   *)
(* Each step of the chain is one action; the places where the code awaits  *)
(* (FHIR.oauth2.ready(), fetch) are answered by the environment.           *)
(*                                                                         *)
(* Strings that the code searches with String.includes are sequences of    *)
(* characters, so that a substring test is a real substring test.          *)
(***************************************************************************)
EXTENDS Integers, Sequences, FiniteSets, TLC

(* ------------------------------ bounds --------------------------------- *)

\* number of fragments a server URL handed over by FHIR.oauth2.ready() is made of
MaxFrags == 2
\* number of createEMRClient calls made on the factory
MaxCalls == 1

(* --------------------------- JavaScript values ------------------------- *)

Undefined == "<undefined>"
Null == "<null>"

\* JavaScript truthiness of a string-or-undefined value
Truthy(v) == v \notin {Undefined, Null, ""}

\* property read obj.k on a JSON object: undefined when the key is absent
Get(obj, k) == IF k \in DOMAIN obj THEN obj[k] ELSE Undefined

\* String.prototype.includes
Includes(s, sub) ==
    \E i \in 0..(Len(s) - Len(sub)) : SubSeq(s, i + 1, i + Len(sub)) = sub

\* values of type unknown handed to getEmrEndpoints: a string or an object
JsStr(s) == [type |-> "string", v |-> s]
JsObj(o) == [type |-> "object", v |-> o]

\* an exception / a normal completion of a synchronous function
mkError(name, message) == [name |-> name, message |-> message]
NoError == mkError("", "")

(* ------------------------------- enums --------------------------------- *)

LAUNCH_EMR == 0
LAUNCH_STANDALONE == 1
LAUNCH_BACKEND == 2
LAUNCH == {LAUNCH_EMR, LAUNCH_STANDALONE, LAUNCH_BACKEND}
\* createEMRClient() called without an argument
NoArgument == -1

EMR_CERNER == "cerner"
EMR_EPIC == "epic"
EMR_SMART == "smart"
EMR_NONE == "none"
EMR == {EMR_CERNER, EMR_EPIC, EMR_SMART, EMR_NONE}
\* emrType before getEMRType has run
NoEmr == "-"

(* ------------------------------ strings -------------------------------- *)

CERNER_SUBSTR == <<"c", "e", "r", "n", "e", "r">>
SMART_SUBSTR == <<"s", "m", "a", "r", "t", "h", "e", "a", "l", "t", "h", "i", "t">>
EPIC_SUBSTR == <<"e", "p", "i", "c">>
FragEp == <<"e", "p">>
FragIc == <<"i", "c">>

\* the pieces server URLs are assembled from: "ep" followed by "ic" makes
\* an occurrence of "epic" that spans two pieces
Frags == {CERNER_SUBSTR, SMART_SUBSTR, EPIC_SUBSTR, FragEp, FragIc}

RECURSIVE Concat(_)
Concat(ss) == IF ss = <<>> THEN <<>> ELSE Head(ss) \o Concat(Tail(ss))

ServerUrls == {Concat(ss) : ss \in UNION {[1..n -> Frags] : n \in 0..MaxFrags}}

EpicEndpoints ==
    [token |-> <<"f", "h", "i", "r", ".", "e", "p", "i", "c", ".", "c", "o", "m",
                 "/", "o", "a", "u", "t", "h", "2", "/", "t", "o", "k", "e", "n">>,
     r4    |-> <<"f", "h", "i", "r", ".", "e", "p", "i", "c", ".", "c", "o", "m",
                 "/", "a", "p", "i", "/", "F", "H", "I", "R", "/", "R", "4">>]
CernerEndpoints ==
    [token |-> <<"a", "u", "t", "h", "o", "r", "i", "z", "a", "t", "i", "o", "n", ".",
                 "c", "e", "r", "n", "e", "r", ".", "c", "o", "m", "/", "t", "o", "k", "e", "n">>,
     r4    |-> <<"f", "h", "i", "r", "-", "e", "h", "r", ".", "c", "e", "r", "n", "e", "r",
                 ".", "c", "o", "m", "/", "r", "4">>]
NoEndpoints == [token |-> <<>>, r4 |-> <<>>]

(* ------------------------------ inputs --------------------------------- *)

\* claims of a decoded token: a JSON object in which client_id and epic.eci
\* are each present or absent
ClaimsOf(cid, eci) ==
    LET b  == [sub |-> "user"]
        b1 == IF cid = Undefined THEN b ELSE ("client_id" :> cid) @@ b
    IN  IF eci = Undefined THEN b1 ELSE ("epic.eci" :> eci) @@ b1

JwtClientIds == {Undefined, "", "app1"}
JwtEpicEci == {Undefined, Null, "urn:epic:x"}

\* the values of the URL's code parameter: tokens jwt_decode accepts, and one it rejects
Codes ==
    {[decodable |-> TRUE, claims |-> ClaimsOf(c, e)] : c \in JwtClientIds, e \in JwtEpicEci}
    \cup {[decodable |-> FALSE, claims |-> [sub |-> "user"]]}
NoCode == [decodable |-> FALSE, claims |-> [sub |-> "-"]]

\* window.location.search: with or without a code parameter
Locations == {[hasCode |-> TRUE, code |-> c] : c \in Codes}
             \cup {[hasCode |-> FALSE, code |-> NoCode]}

\* process.env: REACT_APP_EMR_TYPE is unset or names an EMR, REACT_APP_EMR_CLIENT_ID
\* is unset, empty or a client id
EnvEmrTypes == {Undefined} \cup EMR
EnvClientIds == {Undefined, "", "app2"}

\* bodies the token endpoint answers with (JSON objects)
TokenResponses == {[token_type |-> "bearer"],
                   [token_type |-> "bearer", access_token |-> ""],
                   [token_type |-> "bearer", access_token |-> "tok"]}
NoTokenResponse == [token_type |-> "-"]

(* ------------------------- synchronous functions ----------------------- *)

Return(v) == [thrown |-> FALSE, value |-> v, error |-> NoError]

instanceOfJWT(object) ==
    object.type = "object" /\ Get(object.v, "client_id") # Undefined

instanceOfEmr(object) ==
    object.type = "string" /\ object.v \in EMR

instanceOfSubClient(o) == "class" \in DOMAIN o /\ o.class = "Client"

\* faulty variant: the claim is tested for a truthy value, not for presence
getEMRType_TruthyEci(clientOrToken) ==
    IF instanceOfSubClient(clientOrToken)
    THEN IF Includes(clientOrToken.state.serverUrl, CERNER_SUBSTR) THEN EMR_CERNER
         ELSE IF Includes(clientOrToken.state.serverUrl, SMART_SUBSTR) THEN EMR_SMART
         ELSE IF Includes(clientOrToken.state.serverUrl, EPIC_SUBSTR) THEN EMR_EPIC
         ELSE EMR_NONE
    ELSE IF Truthy(Get(clientOrToken, "epic.eci")) THEN EMR_EPIC
         ELSE EMR_NONE

\* faulty variant: the 'epic' test comes first
getEMRType_EpicFirst(clientOrToken) ==
    IF instanceOfSubClient(clientOrToken)
    THEN IF Includes(clientOrToken.state.serverUrl, EPIC_SUBSTR) THEN EMR_EPIC
         ELSE IF Includes(clientOrToken.state.serverUrl, CERNER_SUBSTR) THEN EMR_CERNER
         ELSE IF Includes(clientOrToken.state.serverUrl, SMART_SUBSTR) THEN EMR_SMART
         ELSE EMR_NONE
    ELSE IF "epic.eci" \in DOMAIN clientOrToken THEN EMR_EPIC
         ELSE EMR_NONE

getEMRType(clientOrToken) ==
    IF instanceOfSubClient(clientOrToken)
    THEN IF Includes(clientOrToken.state.serverUrl, CERNER_SUBSTR) THEN EMR_CERNER
         ELSE IF Includes(clientOrToken.state.serverUrl, SMART_SUBSTR) THEN EMR_SMART
         ELSE IF Includes(clientOrToken.state.serverUrl, EPIC_SUBSTR) THEN EMR_EPIC
         ELSE EMR_NONE
    ELSE IF "epic.eci" \in DOMAIN clientOrToken THEN EMR_EPIC
         ELSE EMR_NONE

getEmrTypeFromObject(object) ==
    IF instanceOfJWT(object) THEN Return(getEMRType(object.v))
    ELSE IF instanceOfEmr(object) THEN Return(object.v)
    ELSE [thrown |-> TRUE, value |-> NoEmr, error |-> mkError("Error", "Invalid object type.")]

getEmrEndpoints(object) ==
    LET t == getEmrTypeFromObject(object)
    IN  IF t.thrown THEN [thrown |-> TRUE, value |-> NoEndpoints, error |-> t.error]
        ELSE IF t.value = EMR_EPIC THEN Return(EpicEndpoints)
        ELSE IF t.value = EMR_CERNER THEN Return(CernerEndpoints)
        ELSE [thrown |-> TRUE, value |-> NoEndpoints,
              error |-> mkError("Error", "EMR type not defined.")]

codeToJwt(c) ==
    IF c.decodable THEN Return(c.claims)
    ELSE [thrown |-> TRUE, value |-> c.claims,
          error |-> mkError("InvalidTokenError", "Invalid token specified")]

NoParams == [endpoints |-> NoEndpoints, clientId |-> Undefined]

\* the try block of getRequiredTokenParameters
tryTokenParameters(c) ==
    LET decodedJwt == codeToJwt(c)
        endpoints  == getEmrEndpoints(JsObj(decodedJwt.value))
    IN  IF decodedJwt.thrown
        THEN [thrown |-> TRUE, value |-> NoParams, error |-> decodedJwt.error]
        ELSE IF endpoints.thrown
        THEN [thrown |-> TRUE, value |-> NoParams, error |-> endpoints.error]
        ELSE Return([endpoints |-> endpoints.value,
                     clientId  |-> Get(decodedJwt.value, "client_id")])

\* faulty variant: one of the two environment variables is enough
catchTokenParameters_EitherGiven(reason, e) ==
    LET clientIdFromEnv == e.REACT_APP_EMR_CLIENT_ID
        emrType == e.REACT_APP_EMR_TYPE
        isRequiredParamsGiven == Truthy(emrType) \/ Truthy(clientIdFromEnv)
        endpoints == getEmrEndpoints(JsStr(emrType))
    IN  IF ~isRequiredParamsGiven
        THEN IF reason.name = "InvalidTokenError"
             THEN [thrown |-> TRUE, value |-> NoParams,
                   error |-> mkError("InvalidTokenError",
                       "Cannot decode the Code for the EMR type. You must provide the client_id and emr_type explicitly")]
             ELSE [thrown |-> TRUE, value |-> NoParams, error |-> reason]
        ELSE IF ~Truthy(emrType)
        THEN [thrown |-> TRUE, value |-> NoParams,
              error |-> mkError("Error",
                  "EMR type cannot be inferred. You must provide the emr_type explicitly")]
        ELSE IF endpoints.thrown
        THEN [thrown |-> TRUE, value |-> NoParams, error |-> endpoints.error]
        ELSE Return([endpoints |-> endpoints.value, clientId |-> clientIdFromEnv])

\* the catch block of getRequiredTokenParameters
catchTokenParameters(reason, e) ==
    LET clientIdFromEnv == e.REACT_APP_EMR_CLIENT_ID
        emrType == e.REACT_APP_EMR_TYPE
        isRequiredParamsGiven == Truthy(emrType) /\ Truthy(clientIdFromEnv)
        endpoints == getEmrEndpoints(JsStr(emrType))
    IN  IF ~isRequiredParamsGiven
        THEN IF reason.name = "InvalidTokenError"
             THEN [thrown |-> TRUE, value |-> NoParams,
                   error |-> mkError("InvalidTokenError",
                       "Cannot decode the Code for the EMR type. You must provide the client_id and emr_type explicitly")]
             ELSE [thrown |-> TRUE, value |-> NoParams, error |-> reason]
        ELSE IF ~Truthy(emrType)
        THEN [thrown |-> TRUE, value |-> NoParams,
              error |-> mkError("Error",
                  "EMR type cannot be inferred. You must provide the emr_type explicitly")]
        ELSE IF endpoints.thrown
        THEN [thrown |-> TRUE, value |-> NoParams, error |-> endpoints.error]
        ELSE Return([endpoints |-> endpoints.value, clientId |-> clientIdFromEnv])

\* faulty variant: the environment, when it gives both values, is used before the code is looked at
getRequiredTokenParameters_EnvFirst(c, e) ==
    LET t == tryTokenParameters(c)
    IN  IF Truthy(e.REACT_APP_EMR_TYPE) /\ Truthy(e.REACT_APP_EMR_CLIENT_ID)
        THEN [out |-> catchTokenParameters(NoError, e), reason |-> NoError]
        ELSE IF ~t.thrown THEN [out |-> t, reason |-> NoError]
        ELSE [out |-> catchTokenParameters(t.error, e), reason |-> t.error]

\* getRequiredTokenParameters(code): the result, and the error the catch block got
getRequiredTokenParameters(c, e) ==
    LET t == tryTokenParameters(c)
    IN  IF ~t.thrown THEN [out |-> t, reason |-> NoError]
        ELSE [out |-> catchTokenParameters(t.error, e), reason |-> t.error]

(* ------------------------------- state --------------------------------- *)

VARIABLES
    env,                \* process.env
    location,           \* window.location.search as getCodeFromBrowserUrl found it
    calls,              \* createEMRClient calls made so far
    argument,           \* what the caller passed to the current call
    pc,                 \* position of the current call
    launchType,         \* createEMRClient's parameter, default applied
    code,               \* buildStandaloneFhirClient: const code
    params,             \* buildStandaloneFhirClient: { endpoints, clientId }
    reason,             \* getRequiredTokenParameters: the error its catch block got
    request,            \* the fetch sent by getAccessToken
    tokenResponse,      \* const tokenResponse of getAccessToken and of buildStandaloneFhirClient
    clients,            \* the FHIR clients that exist, in order of creation
    defaultFhirClient,  \* createEMRClient: const defaultFhirClient (index into clients)
    emrType,            \* createEMRClient: const emrType
    result,             \* the promise createEMRClient returned
    trace               \* the steps the current call has taken, in order

vars == <<env, location, calls, argument, pc, launchType, code, params, reason, request,
          tokenResponse, clients, defaultFhirClient, emrType, result, trace>>

locals == <<code, params, reason, request, tokenResponse, defaultFhirClient, emrType>>

NoRequest == [url |-> <<>>, code |-> NoCode, client_id |-> Undefined]
NoLocation == [hasCode |-> FALSE, code |-> NoCode]

Pending == [status |-> "pending", class |-> "-", client |-> 0, error |-> NoError]
Rejected(e) == [status |-> "rejected", class |-> "-", client |-> 0, error |-> e]
Resolved(cls, c) == [status |-> "resolved", class |-> cls, client |-> c, error |-> NoError]

Client(serverUrl, clientId, tokenResp) ==
    [class |-> "Client",
     state |-> [serverUrl |-> serverUrl, clientId |-> clientId, tokenResponse |-> tokenResp]]

Init ==
    /\ env \in [REACT_APP_EMR_TYPE : EnvEmrTypes, REACT_APP_EMR_CLIENT_ID : EnvClientIds]
    /\ location = NoLocation
    /\ calls = 0
    /\ argument = NoArgument
    /\ pc = "idle"
    /\ launchType = LAUNCH_EMR
    /\ code = NoCode
    /\ params = NoParams
    /\ reason = NoError
    /\ request = NoRequest
    /\ tokenResponse = NoTokenResponse
    /\ clients = <<>>
    /\ defaultFhirClient = 0
    /\ emrType = NoEmr
    /\ result = [status |-> "none", class |-> "-", client |-> 0, error |-> NoError]
    /\ trace = <<>>

\* an exception leaves the async functions: the promise of createEMRClient rejects
Throw(e) ==
    /\ result' = Rejected(e)
    /\ pc' = "done"

(* ------------------------------ actions -------------------------------- *)

\* a caller invokes createEMRClient(launchType = LAUNCH.EMR)
createEMRClient ==
    /\ pc \in {"idle", "done"}
    /\ calls < MaxCalls
    /\ \E arg \in LAUNCH \cup {NoArgument} :
          /\ argument' = arg
          /\ launchType' = IF arg = NoArgument THEN LAUNCH_EMR ELSE arg
    /\ location' = NoLocation
    /\ calls' = calls + 1
    /\ pc' = "createDefaultFhirClient"
    /\ code' = NoCode
    /\ params' = NoParams
    /\ reason' = NoError
    /\ request' = NoRequest
    /\ tokenResponse' = NoTokenResponse
    /\ defaultFhirClient' = 0
    /\ emrType' = NoEmr
    /\ result' = Pending
    /\ trace' = <<>>
    /\ UNCHANGED <<env, clients>>

\* faulty variant: every launch type but EMR runs the standalone exchange
createDefaultFhirClient_BackendAsStandalone ==
    /\ pc = "createDefaultFhirClient"
    /\ IF launchType = LAUNCH_EMR
       THEN /\ trace' = Append(trace, "FHIR.oauth2.ready")
            /\ pc' = "awaitReady"
       ELSE /\ pc' = "getCodeFromBrowserUrl"
            /\ UNCHANGED trace
    /\ UNCHANGED <<env, location, calls, argument, launchType, clients, locals, result>>

\* createDefaultFhirClient: the switch on launchType
createDefaultFhirClient ==
    /\ pc = "createDefaultFhirClient"
    /\ IF launchType = LAUNCH_EMR
       THEN /\ trace' = Append(trace, "FHIR.oauth2.ready")
            /\ pc' = "awaitReady"
            /\ UNCHANGED result
       ELSE IF launchType = LAUNCH_STANDALONE
       THEN /\ pc' = "getCodeFromBrowserUrl"
            /\ UNCHANGED <<trace, result>>
       ELSE /\ Throw(mkError("Error", "Unsupported provider for standalone launch"))
            /\ UNCHANGED trace
    /\ UNCHANGED <<env, location, calls, argument, launchType, clients, locals>>

\* FHIR.oauth2.ready() resolves with the client of the host's launch
readyResolves ==
    /\ pc = "awaitReady"
    /\ \E url \in ServerUrls :
          clients' = Append(clients,
                        Client(url, "app1", [token_type |-> "bearer", access_token |-> "tok"]))
    /\ defaultFhirClient' = Len(clients) + 1
    /\ pc' = "getEMRType"
    /\ UNCHANGED <<env, location, calls, argument, launchType, code, params, reason, request,
                   tokenResponse, emrType, result, trace>>

\* FHIR.oauth2.ready() rejects
readyRejects ==
    /\ pc = "awaitReady"
    /\ Throw(mkError("Error", "No 'state' parameter found."))
    /\ UNCHANGED <<env, location, calls, argument, launchType, clients, locals, trace>>

\* buildStandaloneFhirClient: const code = getCodeFromBrowserUrl()
getCodeFromBrowserUrl ==
    /\ pc = "getCodeFromBrowserUrl"
    /\ trace' = Append(trace, "URLSearchParams.get")
    /\ \E loc \in Locations :
          /\ location' = loc
          /\ IF ~loc.hasCode
             THEN /\ Throw(mkError("Error", "Could not find any JWT token."))
                  /\ UNCHANGED code
             ELSE /\ code' = loc.code
                  /\ pc' = "getRequiredTokenParameters"
                  /\ UNCHANGED result
    /\ UNCHANGED <<env, calls, argument, launchType, params, reason, request,
                   tokenResponse, clients, defaultFhirClient, emrType>>

\* buildStandaloneFhirClient: const { endpoints, clientId } = this.getRequiredTokenParameters(code)
resolveTokenParameters ==
    /\ pc = "getRequiredTokenParameters"
    /\ trace' = Append(trace, "getRequiredTokenParameters")
    /\ LET r == getRequiredTokenParameters(code, env)
       IN  /\ reason' = r.reason
           /\ IF r.out.thrown
              THEN /\ Throw(r.out.error)
                   /\ UNCHANGED params
              ELSE /\ params' = r.out.value
                   /\ pc' = "getAccessToken"
                   /\ UNCHANGED result
    /\ UNCHANGED <<env, location, calls, argument, launchType, code, request, tokenResponse,
                   clients, defaultFhirClient, emrType>>

\* getAccessToken(endpoints.token, code, clientId): the POST is sent
getAccessToken ==
    /\ pc = "getAccessToken"
    /\ request' = [url |-> params.endpoints.token, code |-> code, client_id |-> params.clientId]
    /\ trace' = Append(trace, "fetch")
    /\ pc' = "awaitToken"
    /\ UNCHANGED <<env, location, calls, argument, launchType, code, params, reason,
                   tokenResponse, clients, defaultFhirClient, emrType, result>>

\* faulty variant: the response is passed on without looking for access_token
fetchResolves_Unchecked ==
    /\ pc = "awaitToken"
    /\ \E json \in TokenResponses : tokenResponse' = json
    /\ pc' = "FHIR.client"
    /\ UNCHANGED <<env, location, calls, argument, launchType, code, params, reason, request,
                   clients, defaultFhirClient, emrType, trace, result>>

\* the token endpoint answers with a JSON body; getAccessToken's second then()
fetchResolves ==
    /\ pc = "awaitToken"
    /\ \E json \in TokenResponses :
          /\ tokenResponse' = json
          /\ IF ~Truthy(Get(json, "access_token"))
             THEN Throw(mkError("Error",
                      "Could not find any access token from the oauth endpoint's response"))
             ELSE /\ pc' = "FHIR.client"
                  /\ UNCHANGED result
    /\ UNCHANGED <<env, location, calls, argument, launchType, code, params, reason, request,
                   clients, defaultFhirClient, emrType, trace>>

\* faulty variant: a failed fetch is retried
fetchRejects_Retry ==
    /\ pc = "awaitToken"
    /\ pc' = "getAccessToken"
    /\ UNCHANGED <<env, location, calls, argument, launchType, clients, locals, trace, result>>

\* fetch rejects, or the body is not JSON
fetchRejects ==
    /\ pc = "awaitToken"
    /\ Throw(mkError("TypeError", "Failed to fetch"))
    /\ UNCHANGED <<env, location, calls, argument, launchType, clients, locals, trace>>

\* faulty variant: state.clientId is taken from the environment
buildStandaloneFhirClient_EnvClientId ==
    /\ pc = "FHIR.client"
    /\ clients' = Append(clients,
                     Client(params.endpoints.r4, env.REACT_APP_EMR_CLIENT_ID, tokenResponse))
    /\ defaultFhirClient' = Len(clients) + 1
    /\ trace' = Append(trace, "FHIR.client")
    /\ pc' = "getEMRType"
    /\ UNCHANGED <<env, location, calls, argument, launchType, code, params, reason, request,
                   tokenResponse, emrType, result>>

\* buildStandaloneFhirClient: FHIR.client(endpoints.r4.toString()) and its state
buildStandaloneFhirClient ==
    /\ pc = "FHIR.client"
    /\ clients' = Append(clients, Client(params.endpoints.r4, params.clientId, tokenResponse))
    /\ defaultFhirClient' = Len(clients) + 1
    /\ trace' = Append(trace, "FHIR.client")
    /\ pc' = "getEMRType"
    /\ UNCHANGED <<env, location, calls, argument, launchType, code, params, reason, request,
                   tokenResponse, emrType, result>>

\* createEMRClient: const emrType = this.getEMRType(defaultFhirClient)
detectEMRType ==
    /\ pc = "getEMRType"
    /\ emrType' = getEMRType(clients[defaultFhirClient])
    /\ pc' = "switch"
    /\ UNCHANGED <<env, location, calls, argument, launchType, code, params, reason, request,
                   tokenResponse, clients, defaultFhirClient, result, trace>>

\* faulty variant: SMART and NONE hand back the bare FHIR client
constructEMRClient_BareClient ==
    /\ pc = "switch"
    /\ IF emrType = EMR_EPIC
       THEN /\ result' = Resolved("EpicClient", defaultFhirClient)
            /\ trace' = Append(trace, "new EpicClient")
       ELSE IF emrType = EMR_CERNER
       THEN /\ result' = Resolved("CernerClient", defaultFhirClient)
            /\ trace' = Append(trace, "new CernerClient")
       ELSE /\ result' = Resolved("Client", defaultFhirClient)
            /\ UNCHANGED trace
    /\ pc' = "done"
    /\ UNCHANGED <<env, location, calls, argument, launchType, clients, locals>>

\* faulty variant: the CERNER case constructs an EpicClient
constructEMRClient_CernerAsEpic ==
    /\ pc = "switch"
    /\ IF emrType \in {EMR_EPIC, EMR_CERNER}
       THEN /\ result' = Resolved("EpicClient", defaultFhirClient)
            /\ trace' = Append(trace, "new EpicClient")
            /\ pc' = "done"
       ELSE /\ Throw(mkError("Error", "Unsupported provider for EMR Client creation"))
            /\ UNCHANGED trace
    /\ UNCHANGED <<env, location, calls, argument, launchType, clients, locals>>

\* createEMRClient: the switch on emrType
constructEMRClient ==
    /\ pc = "switch"
    /\ IF emrType = EMR_EPIC
       THEN /\ result' = Resolved("EpicClient", defaultFhirClient)
            /\ trace' = Append(trace, "new EpicClient")
            /\ pc' = "done"
       ELSE IF emrType = EMR_CERNER
       THEN /\ result' = Resolved("CernerClient", defaultFhirClient)
            /\ trace' = Append(trace, "new CernerClient")
            /\ pc' = "done"
       ELSE /\ Throw(mkError("Error", "Unsupported provider for EMR Client creation"))
            /\ UNCHANGED trace
    /\ UNCHANGED <<env, location, calls, argument, launchType, clients, locals>>

Next ==
    \/ createEMRClient
    \/ createDefaultFhirClient
    \/ readyResolves
    \/ readyRejects
    \/ getCodeFromBrowserUrl
    \/ resolveTokenParameters
    \/ getAccessToken
    \/ fetchResolves
    \/ fetchRejects
    \/ buildStandaloneFhirClient
    \/ detectEMRType
    \/ constructEMRClient

Spec == Init /\ [][Next]_vars

TypeOK ==
    /\ calls \in 0..MaxCalls
    /\ launchType \in LAUNCH
    /\ argument \in LAUNCH \cup {NoArgument}
    /\ emrType \in EMR \cup {NoEmr}
    /\ result.status \in {"none", "pending", "resolved", "rejected"}
    /\ defaultFhirClient \in 0..Len(clients)
    /\ Len(clients) <= calls

(* ------------------------- vocabulary of the claims -------------------- *)

IsStep(name) == \E i \in 1..Len(trace) : trace[i] = name
CountStep(name) == Cardinality({i \in 1..Len(trace) : trace[i] = name})
Constructed == IsStep("new EpicClient") \/ IsStep("new CernerClient")

\* the call has a default FHIR client in hand
HasDefaultClient == defaultFhirClient \in 1..Len(clients)
ServerUrl == clients[defaultFhirClient].state.serverUrl

\* getRequiredTokenParameters has run in the current call
ParamsStepDone == IsStep("getRequiredTokenParameters")
HasClientId == "client_id" \in DOMAIN code.claims
HasEpicEci == "epic.eci" \in DOMAIN code.claims
EnvGiven == Truthy(env.REACT_APP_EMR_TYPE) /\ Truthy(env.REACT_APP_EMR_CLIENT_ID)

(* -------------------------------- claims ------------------------------- *)

\* C1: once a call holding a default FHIR client c has finished, it resolved to an
\* EpicClient wrapping c exactly when the server URL of c makes getEMRType yield
\* EPIC, and to a CernerClient wrapping c exactly when it yields CERNER; the client
\* wrapped is the client the call obtained and inspected (the newest one).
C1_VendorClientWrapsInspectedClient ==
    (pc = "done" /\ HasDefaultClient) =>
        /\ defaultFhirClient = Len(clients)
        /\ emrType = getEMRType(clients[defaultFhirClient])
        /\ (result = Resolved("EpicClient", defaultFhirClient)) <=> (emrType = EMR_EPIC)
        /\ (result = Resolved("CernerClient", defaultFhirClient)) <=> (emrType = EMR_CERNER)
        /\ result.status = "resolved" => result.client = defaultFhirClient

C1_Witness ==
    /\ pc = "done"
    /\ launchType = LAUNCH_STANDALONE
    /\ result = Resolved("CernerClient", defaultFhirClient)
    /\ Includes(ServerUrl, CERNER_SUBSTR)

\* C2: the launch type alone selects where the default client comes from. LAUNCH.EMR,
\* which is also what a call without an argument gets, starts with FHIR.oauth2.ready(),
\* never reads the URL's code and sends no token request; LAUNCH.STANDALONE starts the
\* standalone exchange by reading the URL's code and never calls FHIR.oauth2.ready();
\* LAUNCH.BACKEND rejects with Error 'Unsupported provider for standalone launch'
\* before any step of detection, token request or client construction.
C2_LaunchTypeSelectsSource ==
    /\ launchType = (IF argument = NoArgument THEN LAUNCH_EMR ELSE argument)
    /\ pc \notin {"idle", "createDefaultFhirClient"} =>
        /\ launchType = LAUNCH_EMR =>
              /\ Len(trace) >= 1 /\ trace[1] = "FHIR.oauth2.ready"
              /\ CountStep("FHIR.oauth2.ready") = 1
              /\ ~IsStep("URLSearchParams.get") /\ code = NoCode
              /\ ~IsStep("getRequiredTokenParameters")
              /\ ~IsStep("fetch") /\ request = NoRequest
              /\ ~IsStep("FHIR.client")
        /\ launchType = LAUNCH_STANDALONE =>
              /\ ~IsStep("FHIR.oauth2.ready")
              /\ Len(trace) >= 1 => trace[1] = "URLSearchParams.get"
              /\ pc = "done" => Len(trace) >= 1
        /\ launchType = LAUNCH_BACKEND =>
              /\ pc = "done"
              /\ result = Rejected(mkError("Error", "Unsupported provider for standalone launch"))
              /\ trace = <<>>
              /\ emrType = NoEmr /\ request = NoRequest /\ defaultFhirClient = 0

C2_Witness ==
    /\ argument = NoArgument
    /\ pc = "done"
    /\ result.status = "resolved"
    /\ trace[1] = "FHIR.oauth2.ready"

\* C3: for a FHIR client the detected type is decided by ordered substring tests on
\* state.serverUrl: CERNER if it contains 'cerner'; else SMART if it contains
\* 'smarthealthit'; else EPIC if it contains 'epic'; else NONE. So a URL with both
\* 'cerner' and 'epic' is CERNER and one with both 'smarthealthit' and 'epic' is SMART.
C3_EmrTypeByOrderedSubstrings ==
    (HasDefaultClient /\ emrType # NoEmr) =>
        LET cerner == Includes(ServerUrl, CERNER_SUBSTR)
            smart  == Includes(ServerUrl, SMART_SUBSTR)
            epic   == Includes(ServerUrl, EPIC_SUBSTR)
        IN  /\ emrType \in EMR
            /\ (emrType = EMR_CERNER) <=> cerner
            /\ (emrType = EMR_SMART) <=> (~cerner /\ smart)
            /\ (emrType = EMR_EPIC) <=> (~cerner /\ ~smart /\ epic)
            /\ (emrType = EMR_NONE) <=> (~cerner /\ ~smart /\ ~epic)
            /\ (cerner /\ epic) => emrType = EMR_CERNER
            /\ (smart /\ epic /\ ~cerner) => emrType = EMR_SMART

C3_Witness ==
    /\ HasDefaultClient
    /\ emrType = EMR_CERNER
    /\ Includes(ServerUrl, EPIC_SUBSTR)
    /\ Includes(ServerUrl, CERNER_SUBSTR)

\* C4: in a standalone launch whose code decodes to a token with a client_id, once the
\* token parameters are resolved, the Epic endpoints together with the token's own
\* client_id are in use exactly when the token carries the claim 'epic.eci' (whatever
\* its value); in that case nothing was taken from the environment, whatever
\* REACT_APP_EMR_TYPE and REACT_APP_EMR_CLIENT_ID hold; and the type a token yields
\* is EPIC or NONE only.
C4_TokenDecidesEpic ==
    (ParamsStepDone /\ code.decodable /\ HasClientId) =>
        LET fromToken == /\ reason = NoError
                         /\ params = [endpoints |-> EpicEndpoints,
                                      clientId  |-> code.claims["client_id"]]
        IN  /\ HasEpicEci <=> fromToken
            /\ HasEpicEci => (pc # "done" \/ IsStep("fetch"))
            /\ IsStep("fetch") /\ HasEpicEci =>
                  /\ request.url = EpicEndpoints.token
                  /\ request.client_id = code.claims["client_id"]
            /\ reason = NoError => params.endpoints \in {EpicEndpoints}
            /\ reason # NoError => reason = mkError("Error", "EMR type not defined.")

C4_Witness ==
    /\ ParamsStepDone /\ code.decodable /\ HasClientId
    /\ HasEpicEci /\ code.claims["epic.eci"] = Null
    /\ env.REACT_APP_EMR_TYPE = EMR_CERNER /\ env.REACT_APP_EMR_CLIENT_ID = "app2"
    /\ IsStep("fetch")
    /\ request.url = EpicEndpoints.token

\* C4 as stated: with a decoded token that has a client_id the vendor is decided by
\* the token alone, so whatever parameters are in use were not taken from the environment.
C4_VendorByTokenAlone ==
    (ParamsStepDone /\ code.decodable /\ HasClientId /\ params # NoParams) =>
        /\ reason = NoError
        /\ params.endpoints = EpicEndpoints
        /\ params.clientId = code.claims["client_id"]

\* C5: a promise of createEMRClient that resolved holds an EpicClient or a CernerClient
\* built around a FHIR client, never undefined or the bare client; when the detected
\* type is SMART or NONE the call rejects with Error 'Unsupported provider for EMR
\* Client creation' and constructs neither vendor client.
C5_ResolvesToBaseClientOrRejects ==
    /\ result.status = "resolved" =>
          /\ result.class \in {"EpicClient", "CernerClient"}
          /\ result.client \in 1..Len(clients)
          /\ Constructed
          /\ emrType \in {EMR_EPIC, EMR_CERNER}
    /\ (pc = "done" /\ emrType \in {EMR_SMART, EMR_NONE}) =>
          /\ result = Rejected(mkError("Error", "Unsupported provider for EMR Client creation"))
          /\ ~Constructed
    /\ Constructed => result.status = "resolved"

C5_Witness ==
    /\ pc = "done"
    /\ emrType = EMR_SMART
    /\ result.status = "rejected"
    /\ Includes(ServerUrl, EPIC_SUBSTR)

\* C6: a standalone call takes its steps in the fixed order read-code, resolve the
\* endpoints and client id, request the token, build the client, and requests the token
\* at most once; the request is sent only with the URL's code found and the parameters
\* resolved; when reading the code fails (no 'code' query parameter: Error 'Could not
\* find any JWT token.') or resolving fails, the call rejects with no token request
\* sent and no FHIR client built.
StandaloneOrder ==
    <<"URLSearchParams.get", "getRequiredTokenParameters", "fetch", "FHIR.client">>

C6_StandaloneStepsInOrder ==
    launchType = LAUNCH_STANDALONE =>
        /\ \A i \in 1..Len(trace) : i <= Len(StandaloneOrder) => trace[i] = StandaloneOrder[i]
        /\ CountStep("fetch") <= 1
        /\ IsStep("fetch") =>
              /\ location.hasCode /\ code = location.code
              /\ params # NoParams /\ params.endpoints \in {EpicEndpoints, CernerEndpoints}
              /\ request # NoRequest
        /\ (IsStep("URLSearchParams.get") /\ ~location.hasCode) =>
              /\ pc = "done"
              /\ result = Rejected(mkError("Error", "Could not find any JWT token."))
              /\ ~IsStep("fetch") /\ request = NoRequest /\ ~IsStep("FHIR.client")
              /\ defaultFhirClient = 0
        /\ (ParamsStepDone /\ params = NoParams) =>
              /\ pc = "done"
              /\ result.status = "rejected"
              /\ ~IsStep("fetch") /\ request = NoRequest /\ ~IsStep("FHIR.client")
              /\ defaultFhirClient = 0

C6_Witness ==
    /\ launchType = LAUNCH_STANDALONE
    /\ pc = "done"
    /\ Len(trace) >= 4
    /\ SubSeq(trace, 1, 4) = StandaloneOrder
    /\ result.status = "resolved"

\* C7 as stated: a code that decodes successfully never gets its endpoints or its
\* client id from the environment (the fallback is taken only when decoding fails).
C7_FallbackOnlyOnDecodeFailure ==
    (ParamsStepDone /\ params # NoParams /\ reason # NoError) => ~code.decodable

\* C7, amended: the fallback to the environment is taken only when the try block of
\* getRequiredTokenParameters throws, which is when decoding fails (InvalidTokenError),
\* when the decoded token has no client_id ('Invalid object type.') or when it has no
\* 'epic.eci' claim ('EMR type not defined.'); a code that decodes to a token with both
\* never gets its endpoints or client id from the environment.
C7_FallbackOnlyWhenTryThrows ==
    ParamsStepDone =>
        /\ reason # NoError =>
              \/ ~code.decodable /\ reason.name = "InvalidTokenError"
              \/ /\ code.decodable /\ ~HasClientId
                 /\ reason = mkError("Error", "Invalid object type.")
              \/ /\ code.decodable /\ HasClientId /\ ~HasEpicEci
                 /\ reason = mkError("Error", "EMR type not defined.")
        /\ (code.decodable /\ HasClientId /\ HasEpicEci) =>
              /\ reason = NoError
              /\ params = [endpoints |-> EpicEndpoints, clientId |-> code.claims["client_id"]]
        /\ reason = NoError => (code.decodable /\ HasClientId /\ HasEpicEci)
        /\ (reason # NoError /\ params # NoParams) =>
              /\ EnvGiven
              /\ params.clientId = env.REACT_APP_EMR_CLIENT_ID

C7_Witness ==
    /\ ParamsStepDone
    /\ code.decodable /\ HasClientId /\ ~HasEpicEci
    /\ reason = mkError("Error", "EMR type not defined.")
    /\ params = [endpoints |-> CernerEndpoints, clientId |-> "app2"]
    /\ IsStep("fetch")

C9_ClientOnlyAfterAccessToken ==
    launchType = LAUNCH_STANDALONE =>
        /\ (tokenResponse # NoTokenResponse /\ ~Truthy(Get(tokenResponse, "access_token"))) =>
              /\ pc = "done"
              /\ result = Rejected(mkError("Error",
                     "Could not find any access token from the oauth endpoint's response"))
              /\ ~IsStep("FHIR.client") /\ defaultFhirClient = 0
              /\ ~Constructed
        /\ (IsStep("FHIR.client") \/ HasDefaultClient \/ Constructed) =>
              /\ IsStep("fetch")
              /\ Truthy(Get(tokenResponse, "access_token"))
              /\ HasDefaultClient
              /\ clients[defaultFhirClient].state.tokenResponse = tokenResponse
        /\ result.status = "resolved" =>
              Truthy(Get(clients[result.client].state.tokenResponse, "access_token"))

C9_Witness ==
    /\ launchType = LAUNCH_STANDALONE
    /\ tokenResponse = [token_type |-> "bearer", access_token |-> ""]
    /\ pc = "done"
    /\ result.status = "rejected"

\* C10: in every standalone exchange, on the token path and on the environment path,
\* the code sent is the URL's code unchanged (also when it cannot be decoded), the
\* request goes to the token endpoint of the vendor whose r4 endpoint becomes the
\* client's server URL, and the client_id sent is the state.clientId of the client.
C10_RequestMatchesClient ==
    (launchType = LAUNCH_STANDALONE /\ IsStep("fetch")) =>
        /\ request.code = location.code
        /\ \E e \in {EpicEndpoints, CernerEndpoints} :
              /\ request.url = e.token
              /\ params.endpoints = e
              /\ HasDefaultClient => ServerUrl = e.r4
        /\ request.client_id = params.clientId
        /\ HasDefaultClient => clients[defaultFhirClient].state.clientId = request.client_id
        /\ IsStep("FHIR.client") => HasDefaultClient

C10_Witness ==
    /\ launchType = LAUNCH_STANDALONE
    /\ ~code.decodable
    /\ reason # NoError
    /\ result.status = "resolved"
    /\ request.code = location.code
    /\ ServerUrl = CernerEndpoints.r4

====
